---- MODULE Spec2Model ----
(***************************************************************************)
(* State-machine model of gammapy's SafeMaskMaker (makers/safe.py), of     *)
(* EnergyDependenceEstimator (estimators/energydependence.py) and of the   *)
(* addition of sky models, SkyModelBase.__add__ (modeling/models/cube.py). *)
(*                                                                         *)
(* Geometry.  The reconstructed-energy axis has NumEnergyBins bins; bin i  *)
(* has lower edge 2*i and upper edge 2*i+2 and centre 2*i+1 (any strictly  *)
(* increasing axis is order-isomorphic to this one, and the masks only     *)
(* compare energies).  The sky is a line of pixels 0 .. 2*HalfWidth, the   *)
(* map centre is pixel HalfWidth and the angular separation of two         *)
(* positions is the absolute difference.                                   *)
(***************************************************************************)
EXTENDS Integers, Sequences, FiniteSets, TLC

VARIABLES
    maker,      \* the SafeMaskMaker, None before it is constructed
    estimator,  \* the EnergyDependenceEstimator, None when there is none
    dataset,    \* the object handed to the calls as `dataset`
    fits,       \* how many times Fit.run was called
    tests,      \* the TestStatisticNested objects constructed, in order
    operands,   \* the two operands of SkyModel.__add__, None when unused
    call        \* the last call: operation, arguments, outcome, result

vars == <<maker, estimator, dataset, fits, tests, operands, call>>

\* Python None; every optional value is a record with fields k and v
None == [k |-> "None", v |-> 0]

\* ------------------------------------------------------------------ bounds
NumEnergyBins == 3
HalfWidth == 1
MaxMethods == 2
MaxDatasets == 2
MaxFits == 16

\* -------------------------------------------------------------- geometry
EnergyBins == 0 .. (NumEnergyBins - 1)
Pixels == 0 .. (2 * HalfWidth)
Bins == EnergyBins \X Pixels

\* geom.axes["energy"].edges
Edge(k) == 2 * k

\* MapAxis.pix_to_coord on an edges axis: integer pixel idx is the bin centre
PixToCoord(idx) == 2 * idx + 1

\* geom.center_skydir
CenterSkydir == HalfWidth

\* geom.separation(position)
Abs(x) == IF x < 0 THEN -x ELSE x
Separation(pix, position) == Abs(pix - position)

\* np.ones(dataset._geom.data_shape, dtype=bool)
AllTrue == [b \in Bins |-> TRUE]

\* a & b on boolean arrays
MutantMaskOr(a, b) == [x \in Bins |-> a[x] \/ b[x]]
MaskAnd(a, b) == [x \in Bins |-> a[x] /\ b[x]]

\* Geom.energy_mask(energy_min, energy_max): a bin is kept when it lies
\* entirely inside [energy_min, energy_max]; a bound of None is the axis end.
EnergyMask(energy_min, energy_max) ==
    LET lo == IF energy_min.k = "None" THEN Edge(0) ELSE energy_min.v
        hi == IF energy_max.k = "None" THEN Edge(NumEnergyBins) ELSE energy_max.v
    IN [b \in Bins |-> Edge(b[1]) >= lo /\ Edge(b[1] + 1) <= hi]

\* an energy value
E(v) == [k |-> "energy", v |-> v]

\* --------------------------------------------------------- SafeMaskMaker
\* SafeMaskMaker.available_methods
available_methods == {"aeff-default", "aeff-max", "edisp-bias", "offset-max", "bkg-peak"}

\* default of the offset_max argument, "3 deg"
DefaultOffsetMax == 3

\* defaults of aeff_percent and bias_percent
DefaultPercent == 10

\* a sky position (astropy SkyCoord) at pixel coordinate p
SkyCoord(p) == [k |-> "SkyCoord", v |-> p]

\* an offset given as an astropy Angle of d degrees
Angle(d) == [k |-> "Angle", v |-> d]

\* an offset given as a bare Python float of d degrees
Float(d) == [k |-> "float", v |-> d]

\* Python truth value, bool(x), as used by `if x:` and `x and y`:
\* None is false, a bare number is false when zero, a scalar SkyCoord is
\* true, and an astropy Quantity/Angle is true whatever its value
\* (Quantity.__bool__ returns True, zero included).
Truthy(x) ==
    CASE x.k = "None" -> FALSE
      [] x.k = "float" -> x.v # 0
      [] x.k = "SkyCoord" -> TRUE
      [] x.k = "Angle" -> TRUE
      [] x.k = "Observation" -> TRUE
      [] OTHER -> TRUE

Range(s) == {s[i] : i \in DOMAIN s}

\* set(methods)
MethodsSet(methods) == Range(methods)

\* methods.issubset(self.available_methods)
MutantMethodsValidAny(methods) ==
    methods = {} \/ methods \cap available_methods # {}
MethodsValid(methods) == methods \subseteq available_methods

\* self.position and self.fixed_offset
ExclusiveViolated(position, fixed_offset) ==
    Truthy(position) /\ Truthy(fixed_offset)

\* ------------------------------------------------------- array values
\* a float of a numpy array: finite n, nan or +inf
Fin(n) == [k |-> "fin", v |-> n]
NaN == [k |-> "nan", v |-> 0]
Inf == [k |-> "inf", v |-> 0]

\* np.isfinite(x)
IsFinite(x) == x.k = "fin"

\* x > 0.0 (False for nan)
GtZero(x) == (x.k = "fin" /\ x.v > 0) \/ x.k = "inf"

\* a > b on floats (False when either is nan)
Gt(a, b) ==
    CASE a.k = "nan" \/ b.k = "nan" -> FALSE
      [] a.k = "inf" -> b.k # "inf"
      [] b.k = "inf" -> FALSE
      [] OTHER -> a.v > b.v

\* np.nansum of two floats: nan counts as zero
NanAdd(a, b) ==
    CASE a.k = "nan" -> (IF b.k = "nan" THEN Fin(0) ELSE b)
      [] b.k = "nan" -> a
      [] a.k = "inf" \/ b.k = "inf" -> Inf
      [] OTHER -> Fin(a.v + b.v)

\* the result of a mask method: a mask, or the exception it raised
\* (warned: log.warning was called)
Ok(mask) == [outcome |-> "ok", mask |-> mask, warned |-> FALSE]
OkWarned(mask) == [outcome |-> "ok", mask |-> mask, warned |-> TRUE]
Raise(exc) == [outcome |-> exc, mask |-> AllTrue, warned |-> FALSE]

\* ------------------------------------------------------ the mask methods
\* SafeMaskMaker.make_mask_offset_max
make_mask_offset_max(mk, ds, observation) ==
    IF observation.k = "None"
    THEN Raise("ValueError")
    ELSE Ok([b \in Bins |->
               Separation(b[2], observation.pointing_radec) < mk.offset_max])

\* SafeMaskMaker.make_mask_energy_aeff_default; a key missing from
\* aeff.meta is None here, and reading it raises KeyError
MutantAeffDefaultKeepsPresentBound(ds, observation) ==
    IF observation.k = "None"
    THEN Raise("ValueError")
    ELSE LET meta == observation.aeff_meta
             keyError == meta.HI_THRES.k = "None" \/ meta.LO_THRES.k = "None"
         IN IF keyError
            THEN OkWarned(EnergyMask(meta.LO_THRES, meta.HI_THRES))
            ELSE Ok(EnergyMask(meta.LO_THRES, meta.HI_THRES))
make_mask_energy_aeff_default(ds, observation) ==
    IF observation.k = "None"
    THEN Raise("ValueError")
    ELSE LET meta == observation.aeff_meta
             keyError == meta.HI_THRES.k = "None" \/ meta.LO_THRES.k = "None"
             energy_max == IF keyError THEN None ELSE meta.HI_THRES
             energy_min == IF keyError THEN None ELSE meta.LO_THRES
         IN IF keyError
            THEN OkWarned(EnergyMask(energy_min, energy_max))
            ELSE Ok(EnergyMask(energy_min, energy_max))

\* true-energy nodes of the exposure; node t sits at energy Edge(t)
Nodes == 0 .. NumEnergyBins

\* the position at which make_mask_energy_aeff_max evaluates the exposure
MutantAeffMaxPositionAtPointing(mk, observation) ==
    IF Truthy(mk.fixed_offset)
    THEN IF Truthy(observation)
         THEN [outcome |-> "ok", position |-> observation.pointing_radec]
         ELSE [outcome |-> "ValueError", position |-> 0]
    ELSE IF Truthy(mk.position)
    THEN [outcome |-> "ok", position |-> mk.position.v]
    ELSE [outcome |-> "ok", position |-> CenterSkydir]
AeffMaxPosition(mk, observation) ==
    IF Truthy(mk.fixed_offset)
    THEN IF Truthy(observation)
         THEN [outcome |-> "ok",
               position |-> observation.pointing_radec + mk.fixed_offset.v]
         ELSE [outcome |-> "ValueError", position |-> 0]
    ELSE IF Truthy(mk.position)
    THEN [outcome |-> "ok", position |-> mk.position.v]
    ELSE [outcome |-> "ok", position |-> CenterSkydir]

\* aeff.quantity.max()
MaxOf(values) == CHOOSE m \in Range(values) : \A x \in Range(values) : x <= m

\* TemplateSpectralModel.inverse(value, energy_min, energy_max) between two
\* nodes: the first energy, scanning from node lo to node hi, at which the
\* interpolated curve crosses `value`; nan when the scan meets no crossing.
\* `value` is given as num/100.  An energy strictly between nodes i-1 and i
\* is Edge(i) - 1.
Inverse(values, num, lo, hi) ==
    LET below(t) == 100 * values[t] < num
        crossUp == {t \in lo .. (hi - 1) : below(t) # below(t + 1)}
        crossDown == {t \in hi .. (lo - 1) : below(t) # below(t + 1)}
    IN IF lo < hi /\ crossUp # {}
       THEN LET t == CHOOSE c \in crossUp : \A d \in crossUp : c <= d
            IN IF 100 * values[t] = num THEN E(Edge(t))
               ELSE IF 100 * values[t + 1] = num THEN E(Edge(t + 1))
               ELSE E(Edge(t + 1) - 1)
       ELSE IF hi < lo /\ crossDown # {}
       THEN LET t == CHOOSE c \in crossDown : \A d \in crossDown : c >= d
            IN IF 100 * values[t + 1] = num THEN E(Edge(t + 1))
               ELSE IF 100 * values[t] = num THEN E(Edge(t))
               ELSE E(Edge(t + 1) - 1)
       ELSE NaN

\* make_mask_energy_aeff_max once the position is chosen: the threshold
\* from the effective area at `position`.  first and energy_max are node
\* indices: energy_min = energy_true[first], energy_max = energy_true[0].
AeffMaxAt(mk, ds, position) ==
    LET values == ds.exposure[position]
        positive == {t \in Nodes : values[t] > 0}
    IN IF positive = {} THEN Raise("IndexError")
       ELSE LET first == CHOOSE t \in positive : \A u \in positive : t <= u
                energy_max == 0
                inversion ==
                    Inverse(values, mk.aeff_percent * MaxOf(values),
                            first, energy_max)
                energy_min ==
                    IF inversion.k # "nan" THEN inversion
                    ELSE E(Edge(first))
            IN Ok(EnergyMask(energy_min, None))

\* SafeMaskMaker.make_mask_energy_aeff_max
make_mask_energy_aeff_max(mk, ds, observation) ==
    LET pos == AeffMaxPosition(mk, observation)
    IN IF pos.outcome # "ok" THEN Raise(pos.outcome)
       ELSE AeffMaxAt(mk, ds, pos.position)

\* the position at which make_mask_energy_edisp_bias takes the kernel:
\* the displaced pointing, else self.position, else (position None) the
\* centre of the edisp map
EdispBiasPosition(mk, observation) ==
    IF Truthy(mk.fixed_offset)
    THEN IF Truthy(observation)
         THEN [outcome |-> "ok",
               position |-> observation.pointing_radec + mk.fixed_offset.v]
         ELSE [outcome |-> "ValueError", position |-> 0]
    ELSE IF mk.position.k # "None"
    THEN [outcome |-> "ok", position |-> mk.position.v]
    ELSE [outcome |-> "ok", position |-> CenterSkydir]

\* make_mask_energy_edisp_bias once the position is chosen;
\* ds.edisp[position] is get_bias_energy(bias_percent / 100)[0] of the
\* kernel at that position
EdispBiasAt(ds, position) == Ok(EnergyMask(E(ds.edisp[position]), None))

\* SafeMaskMaker.make_mask_energy_edisp_bias
make_mask_energy_edisp_bias(mk, ds, observation) ==
    LET pos == EdispBiasPosition(mk, observation)
    IN IF pos.outcome # "ok" THEN Raise(pos.outcome)
       ELSE EdispBiasAt(ds, pos.position)

\* Map.get_spectrum(): np.nansum over the pixels of energy bin e
RECURSIVE SumPixels(_, _, _)
SumPixels(data, e, p) ==
    IF p < 0 THEN NaN ELSE NanAdd(SumPixels(data, e, p - 1), data[<<e, p>>])

GetSpectrum(data) == [e \in EnergyBins |-> SumPixels(data, e, 2 * HalfWidth)]

\* np.argmax(spectrum, axis=0): the first index holding the maximum
MutantArgMaxLast(spectrum) ==
    CHOOSE i \in EnergyBins :
        /\ \A j \in EnergyBins : ~Gt(spectrum[j], spectrum[i])
        /\ \A j \in EnergyBins : j > i => Gt(spectrum[i], spectrum[j])
ArgMax(spectrum) ==
    CHOOSE i \in EnergyBins :
        /\ \A j \in EnergyBins : ~Gt(spectrum[j], spectrum[i])
        /\ \A j \in EnergyBins : j < i => Gt(spectrum[i], spectrum[j])

\* SafeMaskMaker.make_mask_energy_bkg_peak; npred_background() is the
\* background map (its model at the default norm), and None when the
\* dataset has no background: None has no get_spectrum
make_mask_energy_bkg_peak(ds) ==
    IF ds.background.k = "None"
    THEN Raise("AttributeError")
    ELSE LET background_spectrum == GetSpectrum(ds.background.data)
             idx == ArgMax(background_spectrum)
             energy_min == E(PixToCoord(idx))
         IN Ok(EnergyMask(energy_min, None))

\* SafeMaskMaker.make_mask_bkg_invalid
MutantBkgInvalidIgnoresStat(ds) ==
    IF ds.background.k = "None"
    THEN Raise("AttributeError")
    ELSE Ok([b \in Bins |-> IsFinite(ds.background.data[b])
                             /\ GtZero(ds.background.data[b])])
make_mask_bkg_invalid(ds) ==
    IF ds.background.k = "None"
    THEN Raise("AttributeError")
    ELSE LET bkg == ds.background.data
         IN Ok([b \in Bins |->
                  IF ds.stat_type # "wstat"
                  THEN IsFinite(bkg[b]) /\ GtZero(bkg[b])
                  ELSE IsFinite(bkg[b])])

\* mask_safe &= step, for the steps of run in order; the first step that
\* raises ends the call
RECURSIVE Combine(_, _, _, _)
Combine(steps, i, mask, warned) ==
    IF i > Len(steps)
    THEN [outcome |-> "ok", mask |-> mask, warned |-> warned]
    ELSE IF steps[i].outcome # "ok"
    THEN [outcome |-> steps[i].outcome, mask |-> mask, warned |-> warned]
    ELSE Combine(steps, i + 1, MaskAnd(mask, steps[i].mask),
                 warned \/ steps[i].warned)

\* a step of run that is not selected leaves mask_safe alone
Skip == Ok(AllTrue)

\* SafeMaskMaker.run up to the assignment of dataset.mask_safe
RunResult(mk, ds, observation) ==
    Combine(<<IF ds.background.k # "None"
              THEN make_mask_bkg_invalid(ds) ELSE Skip,
              IF "offset-max" \in mk.methods
              THEN make_mask_offset_max(mk, ds, observation) ELSE Skip,
              IF "aeff-default" \in mk.methods
              THEN make_mask_energy_aeff_default(ds, observation) ELSE Skip,
              IF "aeff-max" \in mk.methods
              THEN make_mask_energy_aeff_max(mk, ds, None) ELSE Skip,
              IF "edisp-bias" \in mk.methods
              THEN make_mask_energy_edisp_bias(mk, ds, None) ELSE Skip,
              IF "bkg-peak" \in mk.methods
              THEN make_mask_energy_bkg_peak(ds) ELSE Skip>>,
            1, AllTrue, FALSE)

\* Map.from_geom(geom, data=data)
Map(data) == [k |-> "Map", v |-> 0, data |-> data]

\* ---------------------------------------------------------------- inputs
MethodNames == available_methods \cup {"psf-max"}

SeqsUpTo(S, n) == UNION {[1 .. m -> S] : m \in 0 .. n}

AllMethodsTuple ==
    <<"aeff-default", "aeff-max", "edisp-bias", "offset-max", "bkg-peak">>

\* default of the methods argument
DefaultMethods == <<"aeff-default">>

MethodInputs ==
    SeqsUpTo(MethodNames, MaxMethods) \cup {DefaultMethods, AllMethodsTuple}

PositionInputs == {None, SkyCoord(2 * HalfWidth)}

FixedOffsetInputs == {None, Float(0), Angle(0), Angle(1)}

OffsetMaxInputs == {1, DefaultOffsetMax}

Pointings == 0 .. HalfWidth

Metas == [LO_THRES : {None, E(1), E(2)}, HI_THRES : {None, E(4)}]

\* every metadata with pointing 0, and the complete metadata with the others
Observations ==
    {o \in [k : {"Observation"}, v : {0}, pointing_radec : Pointings,
            aeff_meta : Metas] :
        o.pointing_radec # 0 =>
            o.aeff_meta = [LO_THRES |-> E(2), HI_THRES |-> E(4)]}

ObservationInputs == {None} \cup Observations

\* exposure whose first positive node, at position p, is node p
Ramp == [p \in Pixels |->
           [t \in Nodes |-> IF t < p THEN 0 ELSE IF t = p THEN 1 ELSE 20]]

\* exposure that vanishes at position 0 and is flat elsewhere
Hole == [p \in Pixels |-> [t \in Nodes |-> IF p = 0 THEN 0 ELSE 20]]

\* energy-dispersion map whose bias energy at position p is the centre of bin p
EdispMap == [p \in Pixels |-> PixToCoord(p)]

\* a background map with a nan, a zero and a negative bin, peaking in bin 1
BkgA == [b \in Bins |->
           CASE b = <<0, 0>> -> NaN
             [] b = <<1, 0>> -> Fin(5)
             [] b = <<1, 1>> -> Fin(0)
             [] b = <<2, 0>> -> Fin(-1)
             [] OTHER -> Fin(1)]

MapDataset(background, stat_type, exposure) ==
    [k |-> "MapDataset", v |-> 0, background |-> background,
     stat_type |-> stat_type, exposure |-> exposure, edisp |-> EdispMap,
     mask_safe |-> None]

RunDatasets ==
    {MapDataset(None, "cash", Ramp),
     MapDataset(Map(BkgA), "cash", Ramp),
     MapDataset(Map(BkgA), "wstat", Hole)}

\* the record of a call: the operation, its arguments and how it ended
NoCall ==
    [op |-> "none", args |-> None, outcome |-> "none", ret |-> None,
     warned |-> FALSE]

\* --------------------------------------------------------------- actions
\* SafeMaskMaker.__init__; each behaviour constructs one maker, as its
\* first call
Construct(methods, position, fixed_offset, offset_max) ==
    /\ maker.k = "None"
    /\ call.op = "none"
    /\ LET ms == MethodsSet(methods)
           args == [methods |-> methods, position |-> position,
                    fixed_offset |-> fixed_offset, offset_max |-> offset_max]
       IN IF ~MethodsValid(ms) \/ ExclusiveViolated(position, fixed_offset)
          THEN /\ call' = [op |-> "__init__", args |-> args,
                           outcome |-> "ValueError", ret |-> None,
                           warned |-> FALSE]
               /\ UNCHANGED maker
          ELSE /\ maker' = [k |-> "SafeMaskMaker", v |-> 0,
                            methods |-> ms,
                            aeff_percent |-> DefaultPercent,
                            bias_percent |-> DefaultPercent,
                            position |-> position,
                            fixed_offset |-> fixed_offset,
                            offset_max |-> offset_max]
               /\ call' = [op |-> "__init__", args |-> args,
                           outcome |-> "ok", ret |-> None, warned |-> FALSE]
    /\ UNCHANGED <<dataset, estimator, fits, tests, operands>>

\* SafeMaskMaker.run(dataset, observation)
MutantRunAssignsEarly(observation) ==
    /\ maker.k = "SafeMaskMaker"
    /\ LET r == RunResult(maker, dataset, observation)
       IN /\ call' = [op |-> "run", args |-> observation,
                      outcome |-> r.outcome, ret |-> None,
                      warned |-> r.warned]
          /\ dataset' = [dataset EXCEPT !.mask_safe = Map(r.mask)]
    /\ UNCHANGED <<maker, estimator, fits, tests, operands>>
Run(observation) ==
    /\ maker.k = "SafeMaskMaker"
    /\ LET r == RunResult(maker, dataset, observation)
       IN /\ call' = [op |-> "run", args |-> observation,
                      outcome |-> r.outcome, ret |-> None,
                      warned |-> r.warned]
          /\ dataset' = IF r.outcome = "ok"
                        THEN [dataset EXCEPT !.mask_safe = Map(r.mask)]
                        ELSE dataset
    /\ UNCHANGED <<maker, estimator, fits, tests, operands>>

\* a direct call of one mask method; its result is kept in call.ret
Returned(op, observation, r) ==
    call' = [op |-> op, args |-> observation, outcome |-> r.outcome,
             ret |-> IF r.outcome = "ok" THEN Map(r.mask) ELSE None,
             warned |-> r.warned]

CallAeffMax(observation) ==
    /\ maker.k = "SafeMaskMaker"
    /\ "aeff-max" \in maker.methods
    /\ Returned("make_mask_energy_aeff_max", observation,
                make_mask_energy_aeff_max(maker, dataset, observation))
    /\ UNCHANGED <<maker, estimator, dataset, fits, tests, operands>>

CallEdispBias(observation) ==
    /\ maker.k = "SafeMaskMaker"
    /\ "edisp-bias" \in maker.methods
    /\ Returned("make_mask_energy_edisp_bias", observation,
                make_mask_energy_edisp_bias(maker, dataset, observation))
    /\ UNCHANGED <<maker, estimator, dataset, fits, tests, operands>>

CallAeffDefault(observation) ==
    /\ maker.k = "SafeMaskMaker"
    /\ "aeff-default" \in maker.methods
    /\ Returned("make_mask_energy_aeff_default", observation,
                make_mask_energy_aeff_default(dataset, observation))
    /\ UNCHANGED <<maker, estimator, dataset, fits, tests, operands>>

Init ==
    /\ maker = None
    /\ estimator = None
    /\ dataset \in RunDatasets
    /\ fits = 0
    /\ tests = <<>>
    /\ operands = None
    /\ call = NoCall

Next ==
    \/ \E methods \in MethodInputs, position \in PositionInputs,
          fixed_offset \in FixedOffsetInputs, offset_max \in OffsetMaxInputs :
          Construct(methods, position, fixed_offset, offset_max)
    \/ \E observation \in ObservationInputs : Run(observation)
    \/ \E observation \in ObservationInputs : CallAeffMax(observation)
    \/ \E observation \in ObservationInputs : CallEdispBias(observation)
    \/ \E observation \in ObservationInputs : CallAeffDefault(observation)

Spec == Init /\ [][Next]_vars

\* ------------------------------------------- the background mask methods
\* values a background bin can hold
BkgValues == {Fin(-1), Fin(0), Fin(1), Fin(2), NaN, Inf}

\* background maps holding any values along the energy axis at pixel 0 and
\* one value in every other pixel
BkgMaps ==
    {[b \in Bins |-> IF b[2] = 0 THEN r[b[1]] ELSE c] :
        r \in [EnergyBins -> BkgValues], c \in BkgValues}

BkgDatasets ==
    {MapDataset(None, "cash", Ramp)}
        \cup {MapDataset(Map(m), st, Ramp) : m \in BkgMaps, st \in {"cash", "wstat"}}

\* SafeMaskMaker.make_mask_energy_bkg_peak(dataset), a static method
CallBkgPeak ==
    /\ Returned("make_mask_energy_bkg_peak", None,
                make_mask_energy_bkg_peak(dataset))
    /\ UNCHANGED <<maker, estimator, dataset, fits, tests, operands>>

\* SafeMaskMaker.make_mask_bkg_invalid(dataset), a static method
CallBkgInvalid ==
    /\ Returned("make_mask_bkg_invalid", None, make_mask_bkg_invalid(dataset))
    /\ UNCHANGED <<maker, estimator, dataset, fits, tests, operands>>

InitBkg ==
    /\ maker = None
    /\ estimator = None
    /\ dataset \in BkgDatasets
    /\ fits = 0
    /\ tests = <<>>
    /\ operands = None
    /\ call = NoCall

NextBkg == CallBkgPeak \/ CallBkgInvalid

SpecBkg == InitBkg /\ [][NextBkg]_vars

\* ---------------------------------------------- EnergyDependenceEstimator
\* the slices of estimate_*: one per energy band and input dataset, bands
\* outermost; slice s is the pair <<band, index of the dataset>>
Slices(est, datasets) ==
    [s \in 1 .. (est.num_energy_bands * Len(datasets.items)) |->
        <<((s - 1) \div Len(datasets.items)) + 1,
          ((s - 1) % Len(datasets.items)) + 1>>]

\* the loop `for dataset in datasets: dataset.mask_fit = ...energy_mask(
\* energy_min=self.energy_edges[0], energy_max=None)`
SetMaskFit(est, datasets) ==
    [datasets EXCEPT !.items =
        [i \in DOMAIN datasets.items |->
            [datasets.items[i] EXCEPT
                !.mask_fit = Map(EnergyMask(E(est.energy_edges[1]), None))]]]

RECURSIVE SumSeq(_, _)
SumSeq(f, n) == IF n = 0 THEN 0 ELSE f[n] + SumSeq(f, n - 1)

\* estimate_energy_dependence with the difference taken the other way round
MutantEnergyDependenceSlicedMinusJoint(est, datasets) ==
    LET n == Len(Slices(est, datasets))
        parameters == datasets.models[est.source].spatial_free
        nfree == Len(parameters) + Len(datasets.models[est.source].spectral_free) + 1
    IN [ret |-> [delta_ts |-> SumSeq([s \in 1 .. n |-> est.fit.stat[s]], n)
                                  - est.fit.joint,
                 df |-> n * nfree - (n * (nfree - Len(parameters)) + Len(parameters))],
        fits |-> n + 1]

\* EnergyDependenceEstimator.estimate_energy_dependence: the result, and
\* the number of calls of Fit.run.  est.fit.stat[s] is the total_stat that
\* the fit of slice s returns, est.fit.joint the one of the joint fit.
estimate_energy_dependence(est, datasets) ==
    LET slices_src == Slices(est, datasets)
        n == Len(slices_src)
        results_src_total_stat == [s \in 1 .. n |-> est.fit.stat[s]]
        parameters == datasets.models[est.source].spatial_free
        nfree == Len(parameters) + Len(datasets.models[est.source].spectral_free) + 1
        df_src == n * nfree
        delta_ts_joint == est.fit.joint - SumSeq(results_src_total_stat, n)
        df_joint == n * (nfree - Len(parameters)) + Len(parameters)
    IN [ret |-> [delta_ts |-> delta_ts_joint, df |-> df_src - df_joint],
        fits |-> n + 1]

\* a fit parameter: the model of the slice that owns it ("src" for the
\* copy of the source model, "bkg" for the FoVBackgroundModel), the
\* component it belongs to, its name and its current value
Parameter(model, part, name, value) ==
    [model |-> model, part |-> part, name |-> name, value |-> value]

\* sliced.models.parameters.free_parameters for sliced.models =
\* [model.copy(), FoVBackgroundModel(...)]: the free parameters of the source
\* (SkyModel.parameters stacks the spectral before the spatial ones), then
\* those of the background, whose default PowerLawNormSpectralModel has
\* only norm free
FreeParameters(model) ==
    [i \in DOMAIN model.spectral_free |->
        Parameter("src", "spectral", model.spectral_free[i],
                  model.value[model.spectral_free[i]])]
    \o [i \in DOMAIN model.spatial_free |->
        Parameter("src", "spatial", model.spatial_free[i],
                  model.value[model.spatial_free[i]])]
    \o <<Parameter("bkg", "spectral", "norm", 1)>>

\* null_values = [0] + [param.value for param in
\* sliced.models[0].spatial_model.parameters.free_parameters]
NullValues(model) ==
    <<0>> \o [i \in DOMAIN model.spatial_free |-> model.value[model.spatial_free[i]]]

\* EnergyDependenceEstimator.estimate_source_significance: the result, and
\* the arguments of the TestStatisticNested built for each slice and the
\* number of calls of Fit.run (TestStatisticNested.run fits each slice
\* under both hypotheses).  est.fit.ts[s] is the "ts" of the test of slice s.
estimate_source_significance(est, datasets) ==
    LET slices_src == Slices(est, datasets)
        n == Len(slices_src)
        model == datasets.models[est.source]
        df_src == Len(model.spatial_free) + Len(model.spectral_free) + 1
        df_bkg == 1
        df_bkg_src == df_src - df_bkg
        delta_ts_bkg_src == [s \in 1 .. n |-> est.fit.ts[s]]
    IN [ret |-> [Emin |-> SubSeq(est.energy_edges, 1, Len(est.energy_edges) - 1),
                 Emax |-> SubSeq(est.energy_edges, 2, Len(est.energy_edges)),
                 delta_ts |-> delta_ts_bkg_src,
                 df |-> [i \in 1 .. est.num_energy_bands |-> df_bkg_src],
                 significance |->
                     [s \in 1 .. n |->
                         [ts |-> delta_ts_bkg_src[s], df |-> df_bkg_src]]],
        tests |-> [s \in 1 .. n |->
                     [parameters |-> FreeParameters(model),
                      null_values |-> NullValues(model)]],
        fits |-> 2 * n]

\* isinstance(dataset, Datasets)
MutantIsDatasetsOrList(x) == x.k \in {"Datasets", "list"}
IsDatasets(x) == x.k = "Datasets"

\* EnergyDependenceEstimator.__init__
EnergyDependenceEstimator(energy_edges, source, fit) ==
    [k |-> "EnergyDependenceEstimator", v |-> 0,
     energy_edges |-> energy_edges, source |-> source,
     num_energy_bands |-> Len(energy_edges) - 1, fit |-> fit]

\* EnergyDependenceEstimator.run(dataset)
EstimatorRun ==
    /\ estimator.k = "EnergyDependenceEstimator"
    /\ fits < MaxFits
    /\ IF ~IsDatasets(dataset)
       THEN /\ call' = [op |-> "EnergyDependenceEstimator.run", args |-> None,
                        outcome |-> "ValueError",
                        ret |-> [k |-> "str", v |-> "Unsupported dataset type."],
                        warned |-> FALSE]
            /\ UNCHANGED <<dataset, fits, tests>>
       ELSE LET masked == SetMaskFit(estimator, dataset)
                dep == estimate_energy_dependence(estimator, masked)
                sig == estimate_source_significance(estimator, masked)
            IN /\ dataset' = masked
               /\ fits' = fits + dep.fits + sig.fits
               /\ tests' = tests \o sig.tests
               /\ call' = [op |-> "EnergyDependenceEstimator.run",
                           args |-> None, outcome |-> "ok",
                           ret |-> [k |-> "dict", v |-> 0,
                                    energy_dependence |-> dep.ret,
                                    src_above_bkg |-> sig.ret],
                           warned |-> FALSE]
    /\ UNCHANGED <<maker, estimator, operands>>

\* the sky model of the source: its free spatial and spectral parameters
SourceModel ==
    [k |-> "SkyModel", v |-> 0, spatial_free |-> <<"lon_0", "lat_0">>,
     spectral_free |-> <<"amplitude">>,
     value |-> [index |-> 2, amplitude |-> 7, lon_0 |-> 3, lat_0 |-> 4]]

\* the same source with the spectral index free as well, and one whose
\* position is frozen
SourceModels ==
    {SourceModel,
     [SourceModel EXCEPT !.spectral_free = <<"index", "amplitude">>],
     [SourceModel EXCEPT !.spatial_free = <<>>]}

\* a dataset of the estimator's input
FitDataset(mask_fit) ==
    [k |-> "MapDataset", v |-> 0, mask_fit |-> mask_fit,
     models |-> [src |-> SourceModel], items |-> <<>>]

FitDatasets == {FitDataset(None), FitDataset(Map(AllTrue))}

\* what a caller can hand to run: a Datasets collection, a plain list of
\* datasets, a single dataset, or None
EstimatorInputs ==
    {[k |-> t, v |-> 0, mask_fit |-> None, models |-> [src |-> model],
      items |-> items] :
        t \in {"Datasets", "list"}, model \in SourceModels,
        items \in UNION {[1 .. n -> FitDatasets] : n \in 1 .. MaxDatasets}}
    \cup FitDatasets
    \cup {[k |-> "None", v |-> 0, mask_fit |-> None,
           models |-> [src |-> SourceModel], items |-> <<>>]}

EnergyEdgeInputs == {<<Edge(0), Edge(1)>>, <<Edge(1), Edge(2), Edge(3)>>}

\* the most slices an input makes: two energy bands of MaxDatasets datasets
MaxSlices == 2 * MaxDatasets

\* what the fits return: the total_stat of each slice fit and of the joint
\* fit, and the ts of each nested test
FitOracles ==
    {[stat |-> [s \in 1 .. MaxSlices |-> 10 + a * s],
      joint |-> j,
      ts |-> [s \in 1 .. MaxSlices |-> a + s]] :
        a \in {0, 1}, j \in {50, 60}}

InitEstimator ==
    /\ maker = None
    /\ estimator \in {EnergyDependenceEstimator(e, "src", f) :
                        e \in EnergyEdgeInputs, f \in FitOracles}
    /\ dataset \in EstimatorInputs
    /\ fits = 0
    /\ tests = <<>>
    /\ operands = None
    /\ call = NoCall

NextEstimator == EstimatorRun

SpecEstimator == InitEstimator /\ [][NextEstimator]_vars

\* ------------------------------------------------- SkyModelBase.__add__
\* the most elements of a Models collection or list operand
MaxModels == 2

\* the names that callers give to models and datasets
ModelNames == {"a", "b"}

\* SkyModel(..., name=name); the name property returns self._name
SkyModel(name) == [k |-> "SkyModel", v |-> 0, name |-> <<name>>]

\* BackgroundModel(..., name=name)
BackgroundModel(name) == [k |-> "BackgroundModel", v |-> 0, name |-> <<name>>]

\* FoVBackgroundModel(dataset_name=dataset_name); the name property returns
\* datasets_names[0] + "-bkg"
FoVBackgroundModel(dataset_name) ==
    [k |-> "FoVBackgroundModel", v |-> 0, name |-> <<dataset_name, "-bkg">>]

\* the subclasses of Model in cube.py
IsModel(x) == x.k \in {"SkyModel", "BackgroundModel", "FoVBackgroundModel"}

\* a Python list / a Models collection holding these items
List(items) == [k |-> "list", v |-> 0, items |-> items]
ModelsOf(items) == [k |-> "Models", v |-> 0, items |-> items]

\* Models.__init__(models) for a list: the loop over the models reads
\* model.name (AttributeError for an item without one) and raises
\* ValueError("Model names must be unique") at the first repeated name
Models(models) ==
    LET bad(i) == \/ ~IsModel(models[i])
                  \/ \E j \in 1 .. (i - 1) :
                        IsModel(models[j]) /\ models[j].name = models[i].name
        failing == {i \in DOMAIN models : bad(i)}
    IN IF failing = {}
       THEN [outcome |-> "ok", ret |-> ModelsOf(models)]
       ELSE LET i == CHOOSE f \in failing : \A g \in failing : f <= g
            IN IF ~IsModel(models[i])
               THEN [outcome |-> "AttributeError", ret |-> None]
               ELSE [outcome |-> "ValueError",
                     ret |-> [k |-> "str", v |-> "Model names must be unique"]]

\* __add__ with FoVBackgroundModel taken for one of the accepted classes
MutantAddAcceptsFoVBackground(self, other) ==
    IF other.k \in {"Models", "list"}
    THEN Models(<<self>> \o other.items)
    ELSE IF IsModel(other)
    THEN Models(<<self, other>>)
    ELSE [outcome |-> "TypeError", ret |-> None]

\* SkyModelBase.__add__(self, other)
__add__(self, other) ==
    IF other.k \in {"Models", "list"}
    THEN Models(<<self>> \o other.items)
    ELSE IF other.k \in {"SkyModel", "BackgroundModel"}
    THEN Models(<<self, other>>)
    ELSE [outcome |-> "TypeError", ret |-> None]

\* SkyModelBase.__radd__(self, model)
__radd__(self, model) == __add__(self, model)

\* the evaluation of `operands.self + operands.other`
Add ==
    /\ operands.k = "operands"
    /\ LET r == __add__(operands.self, operands.other)
       IN call' = [op |-> "SkyModel.__add__", args |-> None,
                   outcome |-> r.outcome, ret |-> r.ret, warned |-> FALSE]
    /\ UNCHANGED <<maker, estimator, dataset, fits, tests, operands>>

\* the call operands.self.__radd__(operands.other)
Radd ==
    /\ operands.k = "operands"
    /\ LET r == __radd__(operands.self, operands.other)
       IN call' = [op |-> "SkyModel.__radd__", args |-> None,
                   outcome |-> r.outcome, ret |-> r.ret, warned |-> FALSE]
    /\ UNCHANGED <<maker, estimator, dataset, fits, tests, operands>>

\* the model objects a caller can hold
ModelInputs ==
    {SkyModel(n) : n \in ModelNames} \cup {BackgroundModel(n) : n \in ModelNames}
    \cup {FoVBackgroundModel(n) : n \in ModelNames}

\* the Models collections that exist: Models.__init__ accepted their items
ModelsInputs ==
    {ModelsOf(items) : items \in
        {s \in SeqsUpTo(ModelInputs, MaxModels) : Models(s).outcome = "ok"}}

\* plain lists, which can also hold something that is not a model
ListInputs == {List(items) : items \in SeqsUpTo(ModelInputs \cup {Float(1)}, MaxModels)}

\* the right operands: a model, a collection, a list, or something else
OtherInputs ==
    ModelInputs \cup ModelsInputs \cup ListInputs
    \cup {[k |-> "None", v |-> 0, items |-> <<>>],
          [k |-> "float", v |-> 1, items |-> <<>>],
          [k |-> "str", v |-> 0, items |-> <<>>]}

InitAdd ==
    /\ maker = None
    /\ estimator = None
    /\ dataset = None
    /\ fits = 0
    /\ tests = <<>>
    /\ operands \in {[k |-> "operands", v |-> 0, self |-> SkyModel(n), other |-> o] :
                        n \in ModelNames, o \in OtherInputs}
    /\ call = NoCall

NextAdd == Add \/ Radd

SpecAdd == InitAdd /\ [][NextAdd]_vars

\* ------------------------------------------------------- SafeMaskMaker.run
\* the mask that method m computes for this dataset and observation
MethodMask(m, mk, ds, observation) ==
    CASE m = "offset-max" -> make_mask_offset_max(mk, ds, observation).mask
      [] m = "aeff-default" -> make_mask_energy_aeff_default(ds, observation).mask
      [] m = "aeff-max" -> make_mask_energy_aeff_max(mk, ds, observation).mask
      [] m = "edisp-bias" -> make_mask_energy_edisp_bias(mk, ds, observation).mask
      [] m = "bkg-peak" -> make_mask_energy_bkg_peak(ds).mask

\* C1: after a successful run a bin of dataset.mask_safe is True exactly
\* when the mask of every selected method is True for it and, when the
\* dataset has a background, the invalid-background mask is True for it;
\* with no method and no background every bin is True.
C1_RunCombinesMasksWithAnd ==
    (call.op = "run" /\ call.outcome = "ok") =>
        /\ dataset.mask_safe.k = "Map"
        /\ \A b \in Bins :
              dataset.mask_safe.data[b] <=>
                  /\ \A m \in maker.methods :
                        MethodMask(m, maker, dataset, call.args)[b]
                  /\ dataset.background.k # "None" =>
                        make_mask_bkg_invalid(dataset).mask[b]
        /\ (maker.methods = {} /\ dataset.background.k = "None") =>
              \A b \in Bins : dataset.mask_safe.data[b]

\* a successful run of two or more methods on a dataset with a background
\* whose mask keeps some bins and drops others
C1_Witness ==
    /\ call.op = "run"
    /\ call.outcome = "ok"
    /\ Cardinality(maker.methods) >= 2
    /\ dataset.background.k # "None"
    /\ \E b \in Bins : dataset.mask_safe.data[b]
    /\ \E b \in Bins : ~dataset.mask_safe.data[b]

\* C2: with fixed_offset set and "aeff-max" or "edisp-bias" selected,
\* run(dataset, observation) with an observation succeeds and its mask is
\* the one of the thresholds at the pointing displaced by fixed_offset
\* (stated for makers with no other method and a dataset with no
\* background, on which those methods succeed when handed the observation).
C2_RunWithFixedOffsetSucceeds ==
    (/\ call.op = "run"
     /\ call.args.k = "Observation"
     /\ maker.fixed_offset.k = "Angle"
     /\ maker.fixed_offset.v > 0
     /\ maker.methods # {}
     /\ maker.methods \subseteq {"aeff-max", "edisp-bias"}
     /\ dataset.background.k = "None"
     /\ AeffMaxAt(maker, dataset,
                  call.args.pointing_radec + maker.fixed_offset.v).outcome = "ok") =>
        /\ call.outcome = "ok"
        /\ \A b \in Bins :
              dataset.mask_safe.data[b] <=>
                  /\ "aeff-max" \in maker.methods =>
                        AeffMaxAt(maker, dataset,
                                  call.args.pointing_radec
                                      + maker.fixed_offset.v).mask[b]
                  /\ "edisp-bias" \in maker.methods =>
                        EdispBiasAt(dataset,
                                    call.args.pointing_radec
                                        + maker.fixed_offset.v).mask[b]

\* C3: run with "offset-max" or "aeff-default" selected and observation
\* None raises ValueError and leaves dataset.mask_safe as it was.
C3_RunWithoutObservationRaises ==
    [][(/\ call'.op = "run"
        /\ call'.args.k = "None"
        /\ maker.k = "SafeMaskMaker"
        /\ maker.methods \cap {"offset-max", "aeff-default"} # {}) =>
           (/\ call'.outcome = "ValueError"
            /\ dataset'.mask_safe = dataset.mask_safe)]_vars

\* a run without observation of the default method that raised ValueError
\* on a dataset already holding the mask of an earlier run
C3_Witness ==
    /\ call.op = "run"
    /\ call.args.k = "None"
    /\ call.outcome = "ValueError"
    /\ maker.methods = Range(DefaultMethods)
    /\ dataset.mask_safe.k = "Map"

\* C4: constructing a maker with both a position and a fixed_offset given
\* (any value, a zero offset included) raises ValueError, so no constructed
\* maker holds both.
C4_PositionAndFixedOffsetExclusive ==
    /\ (/\ call.op = "__init__"
        /\ call.args.position.k # "None"
        /\ call.args.fixed_offset.k # "None") => call.outcome = "ValueError"
    /\ maker.k = "SafeMaskMaker" =>
          (maker.position.k = "None" \/ maker.fixed_offset.k = "None")

\* C5: a method name outside available_methods makes the constructor raise
\* ValueError, so the methods of every constructed maker are a subset of
\* available_methods: the set of the given names, whatever their order and
\* repetitions.
C5_InvalidMethodRaises ==
    /\ (/\ call.op = "__init__"
        /\ \E i \in DOMAIN call.args.methods :
              call.args.methods[i] \notin available_methods) =>
          (call.outcome = "ValueError" /\ maker.k = "None")
    /\ maker.k = "SafeMaskMaker" => maker.methods \subseteq available_methods
    /\ (call.op = "__init__" /\ call.outcome = "ok") =>
          /\ \A i \in DOMAIN call.args.methods :
                call.args.methods[i] \in maker.methods
          /\ \A m \in maker.methods :
                \E i \in DOMAIN call.args.methods : call.args.methods[i] = m

\* a constructor call that raised on a valid name followed by an invalid one
C5_Witness ==
    /\ call.op = "__init__"
    /\ call.outcome = "ValueError"
    /\ Len(call.args.methods) = 2
    /\ call.args.methods[1] \in available_methods
    /\ call.args.methods[2] \notin available_methods
    /\ call.args.position.k = "None"

\* C8: "aeff-default" with both LO_THRES and HI_THRES in the metadata keeps
\* exactly the bins inside [LO_THRES, HI_THRES]; with either key missing it
\* raises nothing, logs a warning and keeps every bin.
C8_AeffDefaultThresholds ==
    (call.op = "make_mask_energy_aeff_default" /\ call.args.k = "Observation") =>
        LET lo == call.args.aeff_meta.LO_THRES
            hi == call.args.aeff_meta.HI_THRES
        IN /\ call.outcome = "ok"
           /\ (lo.k # "None" /\ hi.k # "None") =>
                 /\ ~call.warned
                 /\ \A b \in Bins :
                       call.ret.data[b] <=>
                           (Edge(b[1]) >= lo.v /\ Edge(b[1] + 1) <= hi.v)
           /\ (lo.k = "None" \/ hi.k = "None") =>
                 /\ call.warned
                 /\ \A b \in Bins : call.ret.data[b]

\* a call whose metadata holds LO_THRES above the first edge and no HI_THRES
C8_Witness ==
    /\ call.op = "make_mask_energy_aeff_default"
    /\ call.args.k = "Observation"
    /\ call.args.aeff_meta.LO_THRES.k # "None"
    /\ call.args.aeff_meta.LO_THRES.v > Edge(0)
    /\ call.args.aeff_meta.HI_THRES.k = "None"
    /\ call.outcome = "ok"

AeffCrossings(values, num) ==
    {Edge(t) : t \in {u \in Nodes : 100 * values[u] = num}}
    \cup {Edge(t) + 1 : t \in
            {u \in Nodes \ {NumEnergyBins} :
                \/ 100 * values[u] < num /\ num < 100 * values[u + 1]
                \/ 100 * values[u] > num /\ num > 100 * values[u + 1]}}

\* C15: for method aeff-max the energy threshold is the energy at which the
\* effective area equals aeff_percent/100 of its maximum; when there is no
\* such energy the threshold is the first true-energy node at which the
\* effective area is strictly positive; the mask has only a lower bound.
C15_AeffMaxThreshold ==
    (call.op = "make_mask_energy_aeff_max" /\ call.outcome = "ok") =>
        LET values == dataset.exposure[AeffMaxPosition(maker, call.args).position]
            solutions == AeffCrossings(values, maker.aeff_percent * MaxOf(values))
            positive == {t \in Nodes : values[t] > 0}
            first == CHOOSE t \in positive : \A u \in positive : t <= u
        IN IF solutions # {}
           THEN \E e \in solutions : call.ret.data = EnergyMask(E(e), None)
           ELSE call.ret.data = EnergyMask(E(Edge(first)), None)

\* ------------------------------------------- the background mask methods
\* the energy bins holding the highest predicted background rate
PeakBins(spectrum) ==
    {i \in EnergyBins : \A j \in EnergyBins : ~Gt(spectrum[j], spectrum[i])}

\* C6: the "bkg-peak" threshold is the upper edge of the energy bin with the
\* highest predicted background rate, the lowest such bin on a tie: the
\* mask is False for that bin and the bins below it and True above it.
C6_BkgPeakUpperEdge ==
    (call.op = "make_mask_energy_bkg_peak" /\ call.outcome = "ok") =>
        LET peaks == PeakBins(GetSpectrum(dataset.background.data))
            peak == CHOOSE i \in peaks : \A j \in peaks : i <= j
        IN /\ \A b \in Bins : call.ret.data[b] <=> (b[1] > peak)
           /\ call.ret.data = EnergyMask(E(Edge(peak + 1)), None)

\* a call on a background whose highest rate is held by two bins, the lower
\* of which is not the first bin
C6_Witness ==
    /\ call.op = "make_mask_energy_bkg_peak"
    /\ call.outcome = "ok"
    /\ LET peaks == PeakBins(GetSpectrum(dataset.background.data))
       IN /\ Cardinality(peaks) = 2
          /\ 0 \notin peaks
          /\ \E b \in Bins : call.ret.data[b]

\* C7: a bin of make_mask_bkg_invalid is True exactly when its background
\* value is finite and, unless stat_type is "wstat", greater than 0; for
\* "wstat" zero and negative finite values stay True.
C7_BkgInvalidMask ==
    (call.op = "make_mask_bkg_invalid" /\ call.outcome = "ok") =>
        \A b \in Bins :
            LET x == dataset.background.data[b]
            IN call.ret.data[b] <=>
                   /\ x.k = "fin"
                   /\ dataset.stat_type = "wstat" \/ x.v > 0

\* a call on a "wstat" dataset holding a zero, a negative and a nan bin
C7_Witness ==
    /\ call.op = "make_mask_bkg_invalid"
    /\ call.outcome = "ok"
    /\ dataset.stat_type = "wstat"
    /\ \E b \in Bins : dataset.background.data[b] = Fin(0) /\ call.ret.data[b]
    /\ \E b \in Bins : dataset.background.data[b] = Fin(-1) /\ call.ret.data[b]
    /\ \E b \in Bins : dataset.background.data[b] = NaN /\ ~call.ret.data[b]

C11_OneEntryPerBand ==
    (call.op = "EnergyDependenceEstimator.run" /\ call.outcome = "ok") =>
        LET r == call.ret.src_above_bkg
            bands == Len(estimator.energy_edges) - 1
            slices_src == Slices(estimator, dataset)
            OfBand(i, ts) ==
                \E s \in DOMAIN slices_src :
                    slices_src[s][1] = i /\ ts = estimator.fit.ts[s]
        IN /\ Len(r.Emin) = bands
           /\ Len(r.Emax) = bands
           /\ Len(r.delta_ts) = bands
           /\ Len(r.df) = bands
           /\ Len(r.significance) = bands
           /\ \A i \in 1 .. bands :
                /\ OfBand(i, r.delta_ts[i])
                /\ OfBand(i, r.significance[i].ts)

\* C12: estimate_energy_dependence returns delta_ts equal to the total fit
\* statistic of the joint fit minus the sum of the total fit statistics of
\* the individual fits of every slice, the slices being one per (energy
\* band, input dataset) pair.
C12_DeltaTsJointMinusSliced ==
    (call.op = "EnergyDependenceEstimator.run" /\ call.outcome = "ok") =>
        LET bands == Len(estimator.energy_edges) - 1
            nd == Len(dataset.items)
            StatOf(b, d) == estimator.fit.stat[(b - 1) * nd + d]
            OfBand(b) == SumSeq([d \in 1 .. nd |-> StatOf(b, d)], nd)
            sliced == SumSeq([b \in 1 .. bands |-> OfBand(b)], bands)
        IN call.ret.energy_dependence.delta_ts = estimator.fit.joint - sliced

\* a run on two datasets and two energy bands whose four individual fits
\* returned 11, 12, 13, 14 and whose joint fit returned 60
C12_Witness ==
    /\ call.op = "EnergyDependenceEstimator.run"
    /\ call.outcome = "ok"
    /\ Len(dataset.items) = 2
    /\ Len(estimator.energy_edges) = 3
    /\ \A s \in 1 .. 4 : estimator.fit.stat[s] = 10 + s
    /\ estimator.fit.joint = 60
    /\ call.ret.energy_dependence.delta_ts = 10

\* the value v is the null value of parameter p: 0 for the normalisation of
\* the source, the current value for a free spatial parameter of the source
IsNullValueOf(v, p) ==
    \/ p.model = "src" /\ p.part = "spectral" /\ p.name = "amplitude" /\ v = 0
    \/ p.model = "src" /\ p.part = "spatial" /\ v = p.value

\* C14: for every slice tested in estimate_source_significance, the
\* parameters and the null_values passed to the nested-hypothesis test have
\* the same length and null_values[k] is the null value of parameters[k].
C14_NullValuesMatchParameters ==
    \A t \in DOMAIN tests :
        /\ Len(tests[t].parameters) = Len(tests[t].null_values)
        /\ \A k \in DOMAIN tests[t].parameters \cap DOMAIN tests[t].null_values :
              IsNullValueOf(tests[t].null_values[k], tests[t].parameters[k])

\* ------------------------------------------------- SkyModelBase.__add__
\* C13: m + other returns the Models collection [m, other] when other is a
\* SkyModel or BackgroundModel and [m, *other] when other is a Models or a
\* list; for any other operand type, FoVBackgroundModel included, it raises
\* TypeError; neither operand is modified.
C13_AddReturnsModels ==
    [][call'.op = "SkyModel.__add__" =>
          LET m == operands.self
              other == operands.other
          IN /\ other.k \in {"SkyModel", "BackgroundModel"} =>
                    /\ call'.outcome = "ok"
                    /\ call'.ret = ModelsOf(<<m, other>>)
             /\ other.k \in {"Models", "list"} =>
                    /\ call'.outcome = "ok"
                    /\ call'.ret = ModelsOf(<<m>> \o other.items)
             /\ other.k \notin {"SkyModel", "BackgroundModel", "Models", "list"} =>
                    call'.outcome = "TypeError"
             /\ operands' = operands]_vars

\* the items are all models and no two of them have the same name
DistinctModels(items) ==
    /\ \A i \in DOMAIN items : IsModel(items[i])
    /\ \A i, j \in DOMAIN items : items[i].name = items[j].name => i = j

\* C13 (amended): m + other returns the Models collection [m, other] when
\* other is a SkyModel or BackgroundModel with another name than m, and
\* [m, *other] when other is a Models or a list of models whose names and
\* m's are all different; when these are all models and a name repeats it
\* raises ValueError("Model names must be unique"); for any other operand
\* type, FoVBackgroundModel included, it raises TypeError; neither operand
\* is modified.
C13_AddReturnsModelsOfDistinctNames ==
    [][call'.op = "SkyModel.__add__" =>
          LET m == operands.self
              other == operands.other
              result == IF other.k \in {"Models", "list"}
                        THEN <<m>> \o other.items ELSE <<m, other>>
          IN /\ other.k \in {"SkyModel", "BackgroundModel", "Models", "list"} =>
                    /\ DistinctModels(result) =>
                          /\ call'.outcome = "ok"
                          /\ call'.ret = ModelsOf(result)
                    /\ (~DistinctModels(result)
                            /\ \A i \in DOMAIN result : IsModel(result[i])) =>
                          /\ call'.outcome = "ValueError"
                          /\ call'.ret.v = "Model names must be unique"
             /\ other.k \notin {"SkyModel", "BackgroundModel", "Models", "list"} =>
                    call'.outcome = "TypeError"
             /\ operands' = operands]_vars

\* m + other raised ValueError for another SkyModel of the same name
C13_Witness ==
    /\ call.op = "SkyModel.__add__"
    /\ operands.other.k = "SkyModel"
    /\ operands.other.name = operands.self.name
    /\ call.outcome = "ValueError"

====
